---- MODULE Spec2Model ----
(***************************************************************************)
(* A model of the secret-manager convenience layer: the project handle     *)
(* (makeSecretsWithProject), the secret handle (makeSecrets) and the eight *)
(* pass-through operations, each an async function that builds one request *)
(* for the external client, awaits it and maps the reply.                  *)
(*                                                                         *)
(* Two environments answer the requests:                                   *)
(*   Spec      the secret-storage service as the specification describes   *)
(*             it (sections 4.2, 6, 7), with a caller that awaits each     *)
(*             call before issuing the next;                               *)
(*   SpecStub  a stub client that may answer any request with any reply    *)
(*             shape or error, with several calls in flight at once.       *)
(***************************************************************************)
EXTENDS Integers, Sequences, FiniteSets, Bags, TLC

VARIABLES
    build,      \* which distribution the caller loaded: "src" or "output"
    handles,    \* the secret handles the caller holds, by handle id
    inflight,   \* bag of calls awaiting the client's promise
    last,       \* the call settled by the latest step, or NoCall
    store,      \* the external service: secret key -> sequence of payloads
    added,      \* history: contents of the successful addVersion calls per handle key
    life,       \* history: the handle's latest successful create or delete
    window      \* how many calls the caller keeps in flight at once

vars == <<build, handles, inflight, last, store, added, life, window>>

-----------------------------------------------------------------------------
(* Bounds *)

MaxVersions == 2
MaxInflight == 2

-----------------------------------------------------------------------------
(* JavaScript values.  Text handed to addVersion and returned by access is   *)
(* a sequence of UTF-16 code units; resource names are TLA+ strings.         *)

Undefined == [t |-> "undefined", v |-> <<>>]
Null == [t |-> "null", v |-> <<>>]
JsString(s) == [t |-> "string", v |-> s]
JsNumber(n) == [t |-> "number", v |-> n]
JsBuffer(b) == [t |-> "buffer", v |-> b]
JsObject(type, fields) == [t |-> type, v |-> fields]
JsArray(elems) == [t |-> "array", v |-> elems]

Nullish(x) == x.t \in {"undefined", "null"}

\* x?.field
OptGet(x, field) ==
    IF Nullish(x) THEN Undefined
    ELSE IF field \in DOMAIN x.v THEN x.v[field] ELSE Undefined

\* x ?? d
Coalesce(x, d) == IF Nullish(x) THEN d ELSE x

\* const [first] = array
First(arr) == IF Len(arr.v) >= 1 THEN arr.v[1] ELSE Undefined

-----------------------------------------------------------------------------
(* UTF-8, as Buffer.from(s, 'utf8') and buffer.toString() compute it.        *)

IsHighSurrogate(u) == u >= 55296 /\ u <= 56319
IsLowSurrogate(u) == u >= 56320 /\ u <= 57343
ReplacementChar == 65533

EncodeCodePoint(cp) ==
    IF cp < 128 THEN <<cp>>
    ELSE IF cp < 2048 THEN <<192 + (cp \div 64), 128 + (cp % 64)>>
    ELSE IF cp < 65536 THEN
        <<224 + (cp \div 4096), 128 + ((cp \div 64) % 64), 128 + (cp % 64)>>
    ELSE <<240 + (cp \div 262144), 128 + ((cp \div 4096) % 64),
           128 + ((cp \div 64) % 64), 128 + (cp % 64)>>

CodeUnits(cp) ==
    IF cp < 65536 THEN <<cp>>
    ELSE <<55296 + ((cp - 65536) \div 1024), 56320 + ((cp - 65536) % 1024)>>

Tail2(s) == SubSeq(s, 3, Len(s))

RECURSIVE Utf8Encode(_)
\* A surrogate pair encodes its code point; an unpaired surrogate has no
\* UTF-8 form and is written as U+FFFD.
Utf8Encode(s) ==
    IF s = <<>> THEN <<>>
    ELSE IF IsHighSurrogate(s[1]) /\ Len(s) >= 2 /\ IsLowSurrogate(s[2]) THEN
        EncodeCodePoint(65536 + (s[1] - 55296) * 1024 + (s[2] - 56320))
            \o Utf8Encode(Tail2(s))
    ELSE IF IsHighSurrogate(s[1]) \/ IsLowSurrogate(s[1]) THEN
        EncodeCodePoint(ReplacementChar) \o Utf8Encode(Tail(s))
    ELSE EncodeCodePoint(s[1]) \o Utf8Encode(Tail(s))

RECURSIVE Utf8Decode(_)
RECURSIVE Utf8Continue(_, _, _, _, _, _)
\* The continuation bytes of one sequence: i is the next byte, need the
\* number of bytes still missing, lower..upper the range the next byte must
\* lie in.  A byte out of range ends the sequence with U+FFFD and is decoded
\* again as the start of the next one.
Utf8Continue(b, i, need, cp, lower, upper) ==
    IF i > Len(b) THEN <<ReplacementChar>>
    ELSE IF b[i] < lower \/ b[i] > upper THEN
        <<ReplacementChar>> \o Utf8Decode(SubSeq(b, i, Len(b)))
    ELSE IF need = 1 THEN
        CodeUnits(cp * 64 + (b[i] - 128)) \o Utf8Decode(SubSeq(b, i + 1, Len(b)))
    ELSE Utf8Continue(b, i + 1, need - 1, cp * 64 + (b[i] - 128), 128, 191)

Utf8Decode(b) ==
    IF b = <<>> THEN <<>>
    ELSE IF b[1] < 128 THEN <<b[1]>> \o Utf8Decode(Tail(b))
    ELSE IF b[1] >= 194 /\ b[1] <= 223 THEN
        Utf8Continue(b, 2, 1, b[1] - 192, 128, 191)
    ELSE IF b[1] >= 224 /\ b[1] <= 239 THEN
        Utf8Continue(b, 2, 2, b[1] - 224,
                     IF b[1] = 224 THEN 160 ELSE 128,
                     IF b[1] = 237 THEN 159 ELSE 191)
    ELSE IF b[1] >= 240 /\ b[1] <= 244 THEN
        Utf8Continue(b, 2, 3, b[1] - 240,
                     IF b[1] = 240 THEN 144 ELSE 128,
                     IF b[1] = 244 THEN 143 ELSE 191)
    ELSE <<ReplacementChar>> \o Utf8Decode(Tail(b))

\* value.toString() for the values a payload's data can hold
ToJsString(x) == IF x.t = "buffer" THEN JsString(Utf8Decode(x.v)) ELSE x

\* x?.toString()
OptToString(x) == IF Nullish(x) THEN Undefined ELSE ToJsString(x)

-----------------------------------------------------------------------------
(* Promises: what the client's promise settles with, and what an operation's *)
(* own promise settles with.                                                 *)

NoError == "none"
Resolved(value) == [ok |-> TRUE, value |-> value, error |-> NoError]
Failed(error) == [ok |-> FALSE, value |-> Undefined, error |-> error]
NoReply == [ok |-> FALSE, value |-> Undefined, error |-> "pending"]

Fulfilled(value) == [state |-> "fulfilled", value |-> value, reason |-> NoError]
Rejected(error) == [state |-> "rejected", value |-> Undefined, reason |-> error]
Thrown(error) == [state |-> "thrown", value |-> Undefined, reason |-> error]
NoResult == [state |-> "pending", value |-> Undefined, reason |-> NoError]

NoRequest == [method |-> "none"]

-----------------------------------------------------------------------------
(* The inputs the caller draws from. *)

Parent == "projects/pa"
SecretIds == {"s1", "s2"}
HandleIds == {"h1", "h2"}
\* the secretId each handle is constructed with
HandleSecretId(h) == IF h = "h1" THEN "s1" ELSE "s2"

\* "" ; "a", e-acute, euro sign and an emoji (1, 2, 3 and 4 bytes of UTF-8) ;
\* an unpaired high surrogate
Contents == {<<>>, <<97, 233, 8364, 55357, 56832>>, <<55357>>}

\* access(version?): omitted, or a number
VersionArgs == {Undefined} \cup {JsNumber(n) : n \in -1 .. MaxVersions}

JsText(s) == [t |-> "text", v |-> s]

\* number.toString() renders resource-name text
NumberToString(x) == JsText(ToString(x.v))

\* the values || takes for false, among those that reach it
Falsy(x) ==
    \/ Nullish(x)
    \/ (x.t = "text" /\ x.v = "")
    \/ (x.t = "string" /\ x.v = <<>>)

-----------------------------------------------------------------------------
(* The operations (src/unnamed/part_000).  Each async function is two        *)
(* definitions: the request it hands to the client before the await, and the *)
(* result it settles with once the client's promise has settled.             *)

listSecrets_request(input) ==
    [method |-> "listSecrets", parent |-> input.parent]

listSecrets_result(reply) ==
    IF reply.ok THEN Fulfilled(First(reply.value)) ELSE Rejected(reply.error)

versions_request(input) ==
    [method |-> "listSecretVersions", parent |-> input.parent]

\* versions with an empty list as the fallback for a failure
versions_result_fallback(reply) ==
    IF reply.ok THEN Fulfilled(First(reply.value)) ELSE Fulfilled(JsArray(<<>>))

versions_result(reply) ==
    IF reply.ok THEN Fulfilled(First(reply.value)) ELSE Rejected(reply.error)

createSecret_request(input) ==
    [method |-> "createSecret", parent |-> input.parent,
     secretId |-> input.secretId, secret |-> "replication.automatic"]

\* createSecret with the failure caught and dropped
createSecret_result_swallow(reply) ==
    IF reply.ok THEN Fulfilled(First(reply.value)) ELSE Fulfilled(Undefined)

createSecret_result(reply) ==
    IF reply.ok THEN Fulfilled(First(reply.value)) ELSE Rejected(reply.error)

getSecret_request(input) ==
    [method |-> "getSecret",
     name |-> input.parent \o "/secrets/" \o input.secretId]

getSecret_result(reply) ==
    IF reply.ok THEN Fulfilled(First(reply.value)) ELSE Rejected(reply.error)

\* deleteSecret with the secret id of the documentation's example left in
deleteSecret_request_hardcoded(input) ==
    [method |-> "deleteSecret", name |-> input.parent \o "/secrets/s1"]

deleteSecret_request(input) ==
    [method |-> "deleteSecret",
     name |-> input.parent \o "/secrets/" \o input.secretId]

\* return client.deleteSecret(...): the client's whole reply, not its first element
deleteSecret_result(reply) ==
    IF reply.ok THEN Fulfilled(reply.value) ELSE Rejected(reply.error)

\* Buffer.from(s, 'latin1'): the low byte of each code unit
Latin1Encode(s) == [i \in 1 .. Len(s) |-> s[i] % 256]

\* addNewVersion with the wrong encoding named
addNewVersion_request_latin1(input) ==
    [method |-> "addSecretVersion",
     parent |-> input.parent \o "/secrets/" \o input.secretId,
     payload |-> [data |-> JsBuffer(Latin1Encode(input.secretContent.v))]]

addNewVersion_request(input) ==
    [method |-> "addSecretVersion",
     parent |-> input.parent \o "/secrets/" \o input.secretId,
     payload |-> [data |-> JsBuffer(Utf8Encode(input.secretContent.v))]]

addNewVersion_result(reply) ==
    IF reply.ok THEN Fulfilled(First(reply.value)) ELSE Rejected(reply.error)

access_request(input) ==
    [method |-> "accessSecretVersion",
     name |-> input.parent \o "/secrets/" \o input.secretId
                  \o "/versions/" \o input.secretVersion]

\* x || d
Or(x, d) == IF Falsy(x) THEN d ELSE x

\* access with || where the code has ??
access_result_or(reply) ==
    IF reply.ok THEN
        Fulfilled(Or(
            OptToString(OptGet(OptGet(First(reply.value), "payload"), "data")),
            Null))
    ELSE Rejected(reply.error)

\* accessResponse?.payload?.data?.toString() ?? null
access_result(reply) ==
    IF reply.ok THEN
        Fulfilled(Coalesce(
            OptToString(OptGet(OptGet(First(reply.value), "payload"), "data")),
            Null))
    ELSE Rejected(reply.error)

accessOnlyLatest_request(input) ==
    [method |-> "accessSecretVersion",
     name |-> input.parent \o "/secrets/" \o input.secretId
                  \o "/versions/latest"]

accessOnlyLatest_result(reply) ==
    IF reply.ok THEN
        Fulfilled(Coalesce(
            OptToString(OptGet(OptGet(First(reply.value), "payload"), "data")),
            Null))
    ELSE Rejected(reply.error)

\* the version argument dropped
secretVersion_alwaysLatest(version) == "latest"

\* version?.toString() || 'latest'
secretVersion(version) ==
    LET s == IF Nullish(version) THEN Undefined ELSE NumberToString(version)
    IN  IF Falsy(s) THEN "latest" ELSE s.v

-----------------------------------------------------------------------------
(* The handles. *)

\* makeSecrets of src/unnamed/part_000: the captured secretInput and the
\* methods of the object it returns
makeSecrets(input) ==
    [parent |-> input.parent, secretId |-> input.secretId, client |-> input.client,
     methods |-> {"create", "get", "delete", "addVersion", "access",
                  "accessOnlyLatest"}]

\* makeSecrets of the compiled bundle src/output/index.js
output_makeSecrets(input) ==
    [parent |-> input.parent, secretId |-> input.secretId, client |-> input.client,
     methods |-> {"create", "get", "delete", "addVersion", "access"}]

\* makeSecretsWithProject: one new client, captured with the parent
makeSecretsWithProject(parent) ==
    [parent |-> parent, client |-> "client1",
     methods |-> {"list", "versions", "client", "secret"}]

\* project.secret(secretId), in the distribution the caller loaded
secret(b, project, secretId) ==
    LET input == [parent |-> project.parent, client |-> project.client,
                  secretId |-> secretId]
    IN  IF b = "src" THEN makeSecrets(input) ELSE output_makeSecrets(input)

\* the secretInput a method of the handle closes over
secretInput(handle) ==
    [parent |-> handle.parent, secretId |-> handle.secretId, client |-> handle.client]

Builds == {"src", "output"}

-----------------------------------------------------------------------------
(* The external service, as sections 4.2, 6 and 7 of the specification       *)
(* describe it: secrets by key, each a sequence of version payloads.         *)

ServiceKeys == [parent : {Parent}, secretId : SecretIds]
SecretIdOrder == <<"s1", "s2">>

ServiceName(k) == k.parent \o "/secrets/" \o k.secretId
ServiceVersionName(k, token) == ServiceName(k) \o "/versions/" \o token

SecretRecord(k) == JsObject("Secret", [name |-> JsText(ServiceName(k))])
VersionRecord(k, i) ==
    JsObject("SecretVersion", [name |-> JsText(ServiceVersionName(k, ToString(i)))])
AccessResponse(name, payload) ==
    JsObject("AccessSecretVersionResponse", [name |-> JsText(name), payload |-> payload])
SecretPayload(data) == JsObject("SecretPayload", [data |-> data])
Empty == JsObject("Empty", <<>>)

\* what a client method's promise resolves with: [response, request, options]
ClientTuple(response) == JsArray(<<response, Undefined, Undefined>>)

\* the secret a resource name denotes, if it exists
SecretsNamed(st, name) == {k \in DOMAIN st : ServiceName(k) = name}

\* the versions a version resource name denotes: a number from 1, or latest
VersionsNamed(st, name) ==
    {kv \in {<<k, i>> : k \in DOMAIN st, i \in 1 .. MaxVersions + 1} :
        /\ kv[2] <= Len(st[kv[1]])
        /\ \/ name = ServiceVersionName(kv[1], ToString(kv[2]))
           \/ /\ kv[2] = Len(st[kv[1]])
              /\ name = ServiceVersionName(kv[1], "latest")}

RECURSIVE VersionsUnder(_, _, _)
VersionsUnder(st, parent, ids) ==
    IF ids = <<>> THEN <<>>
    ELSE LET k == [parent |-> parent, secretId |-> Head(ids)]
         IN  (IF k \in DOMAIN st
              THEN [i \in 1 .. Len(st[k]) |-> VersionRecord(k, i)]
              ELSE <<>>) \o VersionsUnder(st, parent, Tail(ids))

SecretsUnder(st, parent) ==
    LET ids == SelectSeq(SecretIdOrder,
                         LAMBDA id : [parent |-> parent, secretId |-> id] \in DOMAIN st)
    IN  [i \in 1 .. Len(ids) |-> SecretRecord([parent |-> parent, secretId |-> ids[i]])]

ServiceReply(st, req) ==
    CASE req.method = "listSecrets" ->
            Resolved(ClientTuple(JsArray(SecretsUnder(st, req.parent))))
      [] req.method = "listSecretVersions" ->
            Resolved(ClientTuple(JsArray(VersionsUnder(st, req.parent, SecretIdOrder))))
      [] req.method = "createSecret" ->
            LET k == [parent |-> req.parent, secretId |-> req.secretId]
            IN  IF k \in DOMAIN st THEN Failed("ALREADY_EXISTS")
                ELSE IF k \notin ServiceKeys THEN Failed("INVALID_ARGUMENT")
                ELSE Resolved(ClientTuple(SecretRecord(k)))
      [] req.method = "getSecret" ->
            IF SecretsNamed(st, req.name) = {} THEN Failed("NOT_FOUND")
            ELSE Resolved(ClientTuple(SecretRecord(CHOOSE k \in SecretsNamed(st, req.name) : TRUE)))
      [] req.method = "deleteSecret" ->
            IF SecretsNamed(st, req.name) = {} THEN Failed("NOT_FOUND")
            ELSE Resolved(ClientTuple(Empty))
      [] req.method = "addSecretVersion" ->
            IF SecretsNamed(st, req.parent) = {} THEN Failed("NOT_FOUND")
            ELSE LET k == CHOOSE k \in SecretsNamed(st, req.parent) : TRUE
                 IN  Resolved(ClientTuple(VersionRecord(k, Len(st[k]) + 1)))
      [] req.method = "accessSecretVersion" ->
            IF VersionsNamed(st, req.name) = {} THEN Failed("NOT_FOUND")
            ELSE LET kv == CHOOSE kv \in VersionsNamed(st, req.name) : TRUE
                 IN  Resolved(ClientTuple(
                        AccessResponse(ServiceVersionName(kv[1], ToString(kv[2])),
                                       SecretPayload(st[kv[1]][kv[2]]))))

ServiceStore(st, req) ==
    CASE req.method = "createSecret" ->
            LET k == [parent |-> req.parent, secretId |-> req.secretId]
            IN  IF k \in DOMAIN st \/ k \notin ServiceKeys THEN st
                ELSE [x \in DOMAIN st \cup {k} |-> IF x = k THEN <<>> ELSE st[x]]
      [] req.method = "deleteSecret" ->
            [x \in DOMAIN st \ SecretsNamed(st, req.name) |-> st[x]]
      [] req.method = "addSecretVersion" ->
            [x \in DOMAIN st |->
                IF x \in SecretsNamed(st, req.parent)
                THEN Append(st[x], req.payload.data) ELSE st[x]]
      [] OTHER -> st

-----------------------------------------------------------------------------
(* A stub client: any error, or any shape of reply the method's type allows. *)

StubErrors == {"NOT_FOUND", "UNAVAILABLE"}
StubBytes == {<<>>, <<104, 105>>}
StubKey == [parent |-> Parent, secretId |-> "s1"]

StubResponses(req) ==
    CASE req.method = "listSecrets" -> {JsArray(<<SecretRecord(StubKey)>>)}
      [] req.method = "listSecretVersions" -> {JsArray(<<VersionRecord(StubKey, 1)>>)}
      [] req.method = "createSecret" -> {SecretRecord(StubKey)}
      [] req.method = "getSecret" -> {SecretRecord(StubKey)}
      [] req.method = "deleteSecret" -> {Empty}
      [] req.method = "addSecretVersion" -> {VersionRecord(StubKey, 1)}
      [] req.method = "accessSecretVersion" ->
            {Undefined,
             AccessResponse(req.name, Undefined),
             AccessResponse(req.name, Null),
             AccessResponse(req.name, SecretPayload(Null))}
            \cup {AccessResponse(req.name, SecretPayload(JsBuffer(b))) : b \in StubBytes}
            \cup {AccessResponse(req.name, SecretPayload(JsString(<<104, 105>>)))}

StubReplies(req) ==
    {Failed(e) : e \in StubErrors} \cup {Resolved(ClientTuple(r)) : r \in StubResponses(req)}

-----------------------------------------------------------------------------
(* State *)

NoCall ==
    [call |-> [h |-> "none", op |-> "none", arg |-> Undefined,
               request |-> NoRequest, sent |-> 0],
     reply |-> NoReply, result |-> NoResult]

Project == makeSecretsWithProject(Parent)

Start ==
    /\ build \in Builds
    /\ handles = [id \in {"project"} \cup HandleIds |->
                    IF id = "project" THEN Project
                    ELSE secret(build, Project, HandleSecretId(id))]
    /\ inflight = EmptyBag
    /\ last = NoCall
    /\ store = [k \in {} |-> <<>>]
    /\ added = [h \in HandleIds |-> <<>>]
    /\ life = [h \in HandleIds |-> "never"]

\* a caller that awaits each call before the next
Init == Start /\ window = 1

\* a caller that keeps several calls in flight
InitStub == Start /\ window = MaxInflight

\* { ...object, field: value }
Spread(object, field, value) ==
    [f \in DOMAIN object \cup {field} |-> IF f = field THEN value ELSE object[f]]

\* handle.op(arg) where the handle has the method: the async function runs up
\* to its await, with one request handed to the client
IssueCall(h, op, arg, request) ==
    /\ inflight' = inflight (+) SetToBag({[h |-> h, op |-> op, arg |-> arg,
                                           request |-> request, sent |-> 1]})
    /\ last' = NoCall
    /\ UNCHANGED <<build, handles, store, added, life, window>>

\* handle.op(arg) where the handle has no such property: a TypeError, and no
\* request
NotAFunction(h, op, arg) ==
    /\ last' = [call |-> [h |-> h, op |-> op, arg |-> arg,
                          request |-> NoRequest, sent |-> 0],
                reply |-> NoReply, result |-> Thrown("TypeError")]
    /\ UNCHANGED <<build, handles, inflight, store, added, life, window>>

Invoke(h, op, arg, request) ==
    /\ BagCardinality(inflight) < window
    /\ IF op \in handles[h].methods THEN IssueCall(h, op, arg, request)
       ELSE NotAFunction(h, op, arg)

baseInput(project) == [parent |-> project.parent, client |-> project.client]

List ==
    Invoke("project", "list", Undefined,
           listSecrets_request(baseInput(handles["project"])))

Versions ==
    Invoke("project", "versions", Undefined,
           versions_request(baseInput(handles["project"])))

Create(h) ==
    Invoke(h, "create", Undefined, createSecret_request(secretInput(handles[h])))

Get(h) ==
    Invoke(h, "get", Undefined, getSecret_request(secretInput(handles[h])))

Delete(h) ==
    Invoke(h, "delete", Undefined, deleteSecret_request(secretInput(handles[h])))

\* addVersion with one request object shared by the calls in flight: the new
\* payload overwrites theirs
AddVersion_sharedRequest(h, content) ==
    LET request == addNewVersion_request(
                       Spread(secretInput(handles[h]), "secretContent", JsString(content)))
        shared(c) == IF c.op = "addVersion"
                     THEN [c EXCEPT !.request.payload = request.payload] ELSE c
    IN  /\ BagCardinality(inflight) < window
        /\ inflight' = SetToBag({shared(c) : c \in BagToSet(inflight)})
                           (+) SetToBag({[h |-> h, op |-> "addVersion",
                                          arg |-> JsString(content),
                                          request |-> request, sent |-> 1]})
        /\ last' = NoCall
        /\ UNCHANGED <<build, handles, store, added, life, window>>

AddVersion(h, content) ==
    /\ Len(added[h]) < MaxVersions
    /\ Invoke(h, "addVersion", JsString(content),
              addNewVersion_request(
                  Spread(secretInput(handles[h]), "secretContent", JsString(content))))

Access(h, version) ==
    Invoke(h, "access", version,
           access_request(
               Spread(secretInput(handles[h]), "secretVersion", secretVersion(version))))

AccessOnlyLatest(h) ==
    Invoke(h, "accessOnlyLatest", Undefined,
           accessOnlyLatest_request(secretInput(handles[h])))

\* the part of each async function after its await
Continuation(call, reply) ==
    CASE call.op = "list" -> listSecrets_result(reply)
      [] call.op = "versions" -> versions_result(reply)
      [] call.op = "create" -> createSecret_result(reply)
      [] call.op = "get" -> getSecret_result(reply)
      [] call.op = "delete" -> deleteSecret_result(reply)
      [] call.op = "addVersion" -> addNewVersion_result(reply)
      [] call.op = "access" -> access_result(reply)
      [] call.op = "accessOnlyLatest" -> accessOnlyLatest_result(reply)

Settled(call, reply) ==
    [call |-> call, reply |-> reply, result |-> Continuation(call, reply)]

\* the history the claims are stated over, by the handle and the call's outcome
AddedAfter(call, result) ==
    IF result.state # "fulfilled" \/ call.h \notin HandleIds THEN added
    ELSE IF call.op = "addVersion" THEN [added EXCEPT ![call.h] = Append(@, call.arg.v)]
    ELSE IF call.op \in {"create", "delete"} THEN [added EXCEPT ![call.h] = <<>>]
    ELSE added

LifeAfter(call, result) ==
    IF result.state # "fulfilled" \/ call.h \notin HandleIds THEN life
    ELSE IF call.op = "delete" THEN [life EXCEPT ![call.h] = "deleted"]
    ELSE IF call.op = "create" THEN [life EXCEPT ![call.h] = "created"]
    ELSE life

\* the service handles a request, the client's promise settles and the
\* awaiting function runs to its end
SettleByService ==
    \E call \in BagToSet(inflight) :
        LET reply == ServiceReply(store, call.request)
            done == Settled(call, reply)
        IN  /\ inflight' = inflight (-) SetToBag({call})
            /\ last' = done
            /\ store' = ServiceStore(store, call.request)
            /\ added' = AddedAfter(call, done.result)
            /\ life' = LifeAfter(call, done.result)
            /\ UNCHANGED <<build, handles, window>>

\* the stub settles a request with any reply
SettleByStub ==
    \E call \in BagToSet(inflight) :
        \E reply \in StubReplies(call.request) :
            /\ inflight' = inflight (-) SetToBag({call})
            /\ last' = Settled(call, reply)
            /\ UNCHANGED <<build, handles, store, added, life, window>>

Next ==
    \/ List
    \/ Versions
    \/ \E h \in HandleIds : Create(h)
    \/ \E h \in HandleIds : Get(h)
    \/ \E h \in HandleIds : Delete(h)
    \/ \E h \in HandleIds : \E content \in Contents : AddVersion(h, content)
    \/ \E h \in HandleIds : \E version \in VersionArgs : Access(h, version)
    \/ \E h \in HandleIds : AccessOnlyLatest(h)
    \/ SettleByService

Spec == Init /\ [][Next]_vars

NextStub ==
    \/ List
    \/ Versions
    \/ \E h \in HandleIds : Create(h)
    \/ \E h \in HandleIds : Get(h)
    \/ \E h \in HandleIds : Delete(h)
    \/ \E h \in HandleIds : \E content \in Contents : AddVersion(h, content)
    \/ \E h \in HandleIds : \E version \in VersionArgs : Access(h, version)
    \/ \E h \in HandleIds : AccessOnlyLatest(h)
    \/ SettleByStub

SpecStub == InitStub /\ [][NextStub]_vars

-----------------------------------------------------------------------------
(* Properties *)

RECURSIVE WellFormed(_)
\* text with no unpaired surrogate
WellFormed(s) ==
    IF s = <<>> THEN TRUE
    ELSE IF IsHighSurrogate(s[1]) THEN
        Len(s) >= 2 /\ IsLowSurrogate(s[2]) /\ WellFormed(Tail2(s))
    ELSE ~IsLowSurrogate(s[1]) /\ WellFormed(Tail(s))

LastSettled(op) == last.call.op = op /\ last.call.sent = 1

\* C1 as stated: after successful addVersion calls on a handle, the last of
\* them addVersion(content), access() with no argument returns content, for
\* every string content.
C1_RoundTripAnyContent ==
    (LastSettled("access") /\ last.call.arg = Undefined /\ added[last.call.h] # <<>>)
        => last.result = Fulfilled(JsString(added[last.call.h][Len(added[last.call.h])]))

\* C1 amended: after successful addVersion calls on a handle, the last of them
\* addVersion(content) with content free of unpaired surrogates (the empty
\* string included), access() with no argument returns content.
C1_RoundTripWellFormed ==
    (/\ LastSettled("access") /\ last.call.arg = Undefined
     /\ added[last.call.h] # <<>>
     /\ WellFormed(added[last.call.h][Len(added[last.call.h])]))
        => last.result = Fulfilled(JsString(added[last.call.h][Len(added[last.call.h])]))

C1_Witness ==
    /\ LastSettled("access") /\ last.call.arg = Undefined
    /\ Len(added[last.call.h]) = 2
    /\ added[last.call.h][1] # <<>>
    /\ added[last.call.h][2] = <<>>
    /\ last.result = Fulfilled(JsString(<<>>))

\* C2 as stated: after n successful addVersion calls with contents c1..cn on a
\* freshly created secret, access(k) returns ck for every 1 <= k <= n.
C2_AccessByNumberAnyContent ==
    (/\ LastSettled("access") /\ last.call.arg.t = "number"
     /\ last.call.arg.v >= 1 /\ last.call.arg.v <= Len(added[last.call.h]))
        => last.result = Fulfilled(JsString(added[last.call.h][last.call.arg.v]))

\* C2 amended: after n successful addVersion calls with contents c1..cn on a
\* freshly created secret, access(k) returns ck for every 1 <= k <= n whose ck
\* is free of unpaired surrogates, however many versions follow the k-th.
C2_AccessByNumberWellFormed ==
    (/\ LastSettled("access") /\ last.call.arg.t = "number"
     /\ last.call.arg.v >= 1 /\ last.call.arg.v <= Len(added[last.call.h])
     /\ WellFormed(added[last.call.h][last.call.arg.v]))
        => last.result = Fulfilled(JsString(added[last.call.h][last.call.arg.v]))

C2_Witness ==
    /\ LastSettled("access") /\ last.call.arg = JsNumber(1)
    /\ Len(added[last.call.h]) = 2
    /\ added[last.call.h][1] # added[last.call.h][2]
    /\ WellFormed(added[last.call.h][1])
    /\ last.result = Fulfilled(JsString(added[last.call.h][1]))

\* C3: accessOnlyLatest() on a secret handle does what access() with the
\* version omitted does: the same accessSecretVersion request, for
\* {parent}/secrets/{secretId}/versions/latest, and the same result.
C3_AccessOnlyLatestIsAccess ==
    (last.call.op = "accessOnlyLatest")
        => /\ last.call.request =
                access_request(Spread(secretInput(handles[last.call.h]),
                                      "secretVersion", secretVersion(Undefined)))
           /\ last.call.request.name =
                Parent \o "/secrets/" \o HandleSecretId(last.call.h) \o "/versions/latest"
           /\ last.result = access_result(last.reply)

\* C4: a successful delete() returns the service's empty acknowledgment or
\* undefined, not the client's whole reply.
C4_DeleteReturnsEmpty ==
    (LastSettled("delete") /\ last.result.state = "fulfilled")
        => last.result.value \in {Empty, Undefined}

\* C5: create() on a handle whose secret was created and not deleted since
\* fails with AlreadyExists and leaves the secrets and their versions as they
\* were.
C5_CreateTwiceFails ==
    [][\A call \in BagToSet(inflight) :
        (/\ call.op = "create" /\ life[call.h] = "created"
         /\ last'.call = call /\ inflight' # inflight)
            => (last'.result = Rejected("ALREADY_EXISTS") /\ store' = store)]_vars

C5_Witness ==
    /\ LastSettled("create")
    /\ last.result = Rejected("ALREADY_EXISTS")
    /\ life[last.call.h] = "created"
    /\ Len(added[last.call.h]) = 2

\* C6: once delete() has succeeded on a handle, get() on it fails with
\* NotFound until create() succeeds again.
C6_GetAfterDeleteNotFound ==
    (LastSettled("get") /\ life[last.call.h] = "deleted")
        => last.result = Rejected("NOT_FOUND")

C6_Witness ==
    /\ LastSettled("get") /\ life[last.call.h] = "deleted"
    /\ last.result = Rejected("NOT_FOUND")
    /\ DOMAIN store # {}

\* C7: when the client's call fails with error E, the operation ends
\* rejected with exactly E, having handed the client one request and no more.
C7_FailurePropagates ==
    /\ (last.call.op # "none" /\ last.call.sent > 0 /\ ~last.reply.ok)
            => (last.result = Rejected(last.reply.error) /\ last.call.sent = 1)
    /\ \A call \in BagToSet(inflight) : call.sent = 1

C7_Witness ==
    /\ LastSettled("versions")
    /\ last.reply = Failed("UNAVAILABLE")
    /\ last.result = Rejected("UNAVAILABLE")

\* the payload data of a successful accessSecretVersion reply, if it has any
HasData(reply) ==
    LET response == reply.value.v[1]
    IN  /\ response.t = "AccessSecretVersionResponse"
        /\ response.v.payload.t = "SecretPayload"
        /\ ~Nullish(response.v.payload.v.data)

\* C8: when accessSecretVersion succeeds, access() returns null if the
\* response, its payload or the payload's data is missing, and a string if and
\* only if the data is present; it does not throw.
C8_NullPayload ==
    (LastSettled("access") /\ last.reply.ok)
        => /\ last.result.state = "fulfilled"
           /\ HasData(last.reply) => last.result.value.t = "string"
           /\ ~HasData(last.reply) => last.result.value = Null

C8_Witness ==
    /\ LastSettled("access") /\ last.reply.ok
    /\ ~HasData(last.reply)
    /\ last.result = Fulfilled(Null)

\* the version segments the naming scheme allows
VersionTokens == {"latest"} \cup {ToString(n) : n \in 1 .. MaxVersions + 1}

\* C9: the name access(version) sends is
\* {parent}/secrets/{secretId}/versions/{v}, v a positive integer or latest,
\* for the version omitted or any number; omitted gives latest.
C9_VersionSegment ==
    \A call \in BagToSet(inflight) :
        call.op = "access"
            => /\ call.request.name \in
                    {Parent \o "/secrets/" \o HandleSecretId(call.h) \o "/versions/" \o v :
                        v \in VersionTokens}
               /\ call.arg = Undefined
                    => call.request.name =
                        Parent \o "/secrets/" \o HandleSecretId(call.h) \o "/versions/latest"

\* the request an operation is to build from its handle's parent and
\* secretId and its own argument
OwnRequest(call) ==
    LET name == Parent \o "/secrets/" \o HandleSecretId(call.h)
    IN  CASE call.op = "list" -> [method |-> "listSecrets", parent |-> Parent]
          [] call.op = "versions" -> [method |-> "listSecretVersions", parent |-> Parent]
          [] call.op = "create" ->
                [method |-> "createSecret", parent |-> Parent,
                 secretId |-> HandleSecretId(call.h), secret |-> "replication.automatic"]
          [] call.op = "get" -> [method |-> "getSecret", name |-> name]
          [] call.op = "delete" -> [method |-> "deleteSecret", name |-> name]
          [] call.op = "addVersion" ->
                [method |-> "addSecretVersion", parent |-> name,
                 payload |-> [data |-> JsBuffer(Utf8Encode(call.arg.v))]]
          [] call.op = "access" ->
                [method |-> "accessSecretVersion",
                 name |-> name \o "/versions/"
                            \o (IF call.arg = Undefined THEN "latest"
                                ELSE ToString(call.arg.v))]
          [] call.op = "accessOnlyLatest" ->
                [method |-> "accessSecretVersion", name |-> name \o "/versions/latest"]

\* the values an operation can return from one reply
OwnValues(reply) ==
    {reply.value, First(reply.value), Null}
        \cup (IF HasData(reply)
              THEN LET data == reply.value.v[1].v.payload.v.data
                   IN  {IF data.t = "buffer" THEN JsString(Utf8Decode(data.v)) ELSE data}
              ELSE {})

NoInterference ==
    /\ \A call \in BagToSet(inflight) : call.request = OwnRequest(call)
    /\ last.call.sent = 1 =>
        /\ last.call.request = OwnRequest(last.call)
        /\ ~last.reply.ok => last.result = Rejected(last.reply.error)
        /\ last.reply.ok =>
            (last.result.state = "fulfilled" /\ last.result.value \in OwnValues(last.reply))

\* C10: with several calls in flight on the handles of one project, each
\* request is built from its handle's parent and secretId and its own
\* argument, the handles never change, and each call returns the mapping of
\* its own reply.
C10_NoInterference ==
    /\ []NoInterference
    /\ [][handles' = handles]_vars

C10_Witness ==
    /\ LastSettled("addVersion")
    /\ last.reply.ok
    /\ \E call \in BagToSet(inflight) :
        /\ call.op = "addVersion"
        /\ call.h = last.call.h
        /\ call.arg # last.call.arg

====
